---- MODULE Spec2Model ----
(***************************************************************************)
(* The agentic control loop of the RAG assistant: one user turn driven by  *)
(* the LangGraph state graph of backend/app/agents/graph.py through the    *)
(* nodes coordinator, search, grader, rewriter and answer.                 *)
(*                                                                         *)
(* Texts are TLA+ strings; similarities are integers in hundredths         *)
(* (0.25 is 25).  Python's None is the reserved text None.                 *)
(***************************************************************************)
EXTENDS Integers, Sequences, FiniteSets, TLC

(***************************************************************************)
(* Bounds of the model.                                                    *)
(***************************************************************************)
\* Longest candidate list the vector index returns to one search.
MaxCandidates == 3
\* The longest query, in words, given directly to the domain gate.
MaxWords == 3
\* The chat requests the server receives.
MaxRequests == 2

(***************************************************************************)
(* Program constants.                                                      *)
(***************************************************************************)
RewriterRetryLimit == 2
RouteRetryLimit == 2
CoordinatorRetryLimit == 2
MaxIterations == 5
GraderThreshold == 25
RetrieverThreshold == 20
TopK == 5
FallbackMinLen == 10
\* graph.invoke(initial_state) passes no config, so LangGraph's default
\* recursion limit applies: the node executions after which invoke raises
\* GraphRecursionError.
RecursionLimit == 25

None == "<None>"

(***************************************************************************)
(* Python string operations, on TLA+ strings.                              *)
(***************************************************************************)
CharAt(s, i) == SubSeq(s, i, i)

\* Position of the first character of s that is not in chars (Len(s) + 1 if
\* there is none), and of the last one (0 if there is none).
FirstKept(s, chars) ==
  IF \E i \in 1..Len(s) : CharAt(s, i) \notin chars
  THEN CHOOSE i \in 1..Len(s) :
         /\ CharAt(s, i) \notin chars
         /\ \A j \in 1..(i - 1) : CharAt(s, j) \in chars
  ELSE Len(s) + 1

LastKept(s, chars) ==
  IF \E i \in 1..Len(s) : CharAt(s, i) \notin chars
  THEN CHOOSE i \in 1..Len(s) :
         /\ CharAt(s, i) \notin chars
         /\ \A j \in (i + 1)..Len(s) : CharAt(s, j) \in chars
  ELSE 0

\* str.strip(chars)
StripChars(s, chars) == SubSeq(s, FirstKept(s, chars), LastKept(s, chars))

\* str.strip()
Strip(s) == StripChars(s, {" ", "\t", "\n", "\r", "\f"})

\* str.startswith(p)
StartsWith(s, p) == Len(s) >= Len(p) /\ SubSeq(s, 1, Len(p)) = p

\* p in s
Contains(s, p) ==
  \E i \in 1..(Len(s) - Len(p) + 1) : SubSeq(s, i, i + Len(p) - 1) = p

\* str.replace(p, ""), p non-empty: the occurrences of p are removed from
\* left to right.
Remove(s, p) ==
  LET rest[i \in 1..(Len(s) + 1)] ==
        IF i > Len(s) THEN ""
        ELSE IF i + Len(p) - 1 <= Len(s) /\ SubSeq(s, i, i + Len(p) - 1) = p
             THEN rest[i + Len(p)]
             ELSE CharAt(s, i) \o rest[i + 1]
  IN  rest[1]

UpperChars == <<"A", "B", "C", "D", "E", "F", "G", "H", "I", "J", "K", "L", "M",
                "N", "O", "P", "Q", "R", "S", "T", "U", "V", "W", "X", "Y", "Z",
                "Á", "É", "Í", "Ó", "Ú", "Ñ", "Ü">>
LowerChars == <<"a", "b", "c", "d", "e", "f", "g", "h", "i", "j", "k", "l", "m",
                "n", "o", "p", "q", "r", "s", "t", "u", "v", "w", "x", "y", "z",
                "á", "é", "í", "ó", "ú", "ñ", "ü">>

LowerChar(c) ==
  IF \E i \in 1..Len(UpperChars) : UpperChars[i] = c
  THEN LowerChars[CHOOSE i \in 1..Len(UpperChars) : UpperChars[i] = c]
  ELSE c

\* str.lower()
Lower(s) ==
  LET low[i \in 0..Len(s)] ==
        IF i = 0 THEN "" ELSE low[i - 1] \o LowerChar(CharAt(s, i))
  IN  low[Len(s)]

\* str.split('\n'): the texts between consecutive line breaks
LineBreaks(s) ==
  {0} \cup {i \in 1..Len(s) : CharAt(s, i) = "\n"} \cup {Len(s) + 1}

NthBreak(s, n) ==
  CHOOSE b \in LineBreaks(s) : Cardinality({c \in LineBreaks(s) : c < b}) = n - 1

SplitLines(s) ==
  [n \in 1..(Cardinality(LineBreaks(s)) - 1) |->
     SubSeq(s, NthBreak(s, n) + 1, NthBreak(s, n + 1) - 1)]

\* Python truthiness of an Optional[str]
Truthy(x) == x # None /\ x # ""

(***************************************************************************)
(* Domain gate (coordinator.py).                                           *)
(***************************************************************************)
DOMAIN_KEYWORDS == <<
  "inteligencia artificial", "machine learning", "aprendizaje automático",
  "red neuronal", "redes neuronales", "deep learning", "aprendizaje profundo",
  "algoritmo", "modelo", "clasificación", "regresión", "clustering",
  "agente", "grafo", "búsqueda", "heurística", "rag", "llm",
  "transformer", "backpropagation", "gradient", "overfitting",
  "ia", "ml", "nlp", "cnn", "rnn", "lstm", "gpt", "bert",
  "vector", "embedding", "similitud", "retrieval", "generación",
  "supervisado", "no supervisado", "refuerzo", "reinforcement",
  "perceptrón", "neurona", "capa", "función de activación",
  "datos", "dataset", "entrenamiento", "inferencia", "predicción" >>

OUT_OF_DOMAIN_KEYWORDS == <<
  "bitcoin", "ethereum", "usdt", "crypto", "criptomoneda", "dólar", "euro",
  "precio", "valor", "cotización", "bolsa", "acción", "inversión",
  "fútbol", "béisbol", "mundial", "copa", "gol", "equipo", "partido",
  "clima", "temperatura", "lluvia", "tiempo meteorológico",
  "receta", "cocina", "comida", "ingrediente",
  "política", "presidente", "elección", "gobierno",
  "película", "canción", "artista", "actor" >>

\* is_out_of_domain looking at the out-of-domain keywords first.
is_out_of_domain_OutFirst(query) ==
  \E query_lower \in {Lower(query)} :
    IF \E i \in 1..Len(OUT_OF_DOMAIN_KEYWORDS) :
         Contains(query_lower, OUT_OF_DOMAIN_KEYWORDS[i])
    THEN TRUE
    ELSE FALSE

is_out_of_domain(query) ==
  \E query_lower \in {Lower(query)} :
    IF \E i \in 1..Len(DOMAIN_KEYWORDS) : Contains(query_lower, DOMAIN_KEYWORDS[i])
    THEN FALSE
    ELSE IF \E i \in 1..Len(OUT_OF_DOMAIN_KEYWORDS) :
              Contains(query_lower, OUT_OF_DOMAIN_KEYWORDS[i])
         THEN TRUE
         ELSE FALSE

(***************************************************************************)
(* parse_react_response (prompts.py): line-prefix parsing of the LLM's     *)
(* routing response.                                                       *)
(***************************************************************************)
ParseLine(acc, raw) ==
  LET line == Strip(raw)
      r == acc.result
  IN  IF StartsWith(line, "Thought:")
      THEN [current_field |-> "thought",
            result |-> [r EXCEPT !.thought = Strip(Remove(line, "Thought:"))]]
      ELSE IF StartsWith(line, "Action:")
      THEN [current_field |-> "action",
            result |-> [r EXCEPT !.action = Lower(Strip(Remove(line, "Action:")))]]
      ELSE IF StartsWith(line, "Action Input:")
      THEN [current_field |-> "action_input",
            result |-> [r EXCEPT !.action_input = Strip(Remove(line, "Action Input:"))]]
      ELSE IF acc.current_field # None /\ line # ""
      THEN [current_field |-> acc.current_field,
            result |-> [r EXCEPT ![acc.current_field] = @ \o " " \o line]]
      ELSE acc

ParseLines(acc, lines) ==
  LET after[i \in 0..Len(lines)] ==
        IF i = 0 THEN acc ELSE ParseLine(after[i - 1], lines[i])
  IN  after[Len(lines)]

parse_react_response(response) ==
  LET lines == SplitLines(Strip(response))
      result == ParseLines([current_field |-> None,
                            result |-> [thought |-> "", action |-> "",
                                        action_input |-> ""]],
                           lines).result
  IN  IF result.action \notin {"search", "answer"}
      THEN [result EXCEPT !.action = "search"]
      ELSE result

(***************************************************************************)
(* GraphState (state.py) and the orchestrator's merge of a node's partial  *)
(* update.  A field annotated with operator.add is accumulated, any other  *)
(* field is overwritten, and a key that is no field of the state is        *)
(* dropped.  conversation_history, relevant_context and timestamp are      *)
(* written once and read by no node's control flow; they are left out.     *)
(***************************************************************************)
GraphStateKeys ==
  {"user_query", "iteration", "thought", "action", "action_input",
   "observation", "retrieved_documents", "final_answer", "next_step",
   "should_continue", "trace", "error"}

\* GraphState with a plain trace field: a node's trace replaces the old one.
AddKeys_TraceOverwritten == {"retrieved_documents"}

AddKeys == {"retrieved_documents", "trace"}

\* The retry counter of the turn state.  The state module under src/ does
\* not hold it (nor increment_retry, which rewriter.py imports from it).
RetryStateKeys == {"retry_count"}

create_initial_state(user_query) ==
  [user_query |-> user_query,
   iteration |-> 0,
   thought |-> None,
   action |-> None,
   action_input |-> None,
   observation |-> None,
   retrieved_documents |-> <<>>,
   final_answer |-> None,
   next_step |-> "coordinator",
   should_continue |-> TRUE,
   trace |-> <<>>,
   error |-> None]

\* The state a turn starts from: retry_count is reset to zero.
InitialTurnState(user_query) ==
  create_initial_state(user_query) @@ [k \in RetryStateKeys |-> 0]

\* state.get(key, default)
Get(st, key, default) == IF key \in DOMAIN st THEN st[key] ELSE default

MergeUpdate(st, upd) ==
  [k \in DOMAIN st |->
     IF k \in DOMAIN upd
     THEN IF k \in AddKeys THEN st[k] \o upd[k] ELSE upd[k]
     ELSE st[k]]

add_trace_step(st, agent, thought, action, observation) ==
  [trace |-> << [step |-> st.iteration, agent |-> agent, thought |-> thought,
                 action |-> action, observation |-> observation] >>]

\* increment_iteration stepping past the iteration ceiling at once.
increment_iteration_BySix(st) == [iteration |-> st.iteration + 6]

increment_iteration(st) == [iteration |-> st.iteration + 1]

increment_retry(st) == [retry_count |-> Get(st, "retry_count", 0) + 1]

(***************************************************************************)
(* Collaborators' outcomes: an LLM call returns a text or raises; the      *)
(* vector index returns candidates, ordered by descending similarity, or   *)
(* raises.                                                                 *)
(***************************************************************************)
LLMError == "llm unavailable"
IndexError == "index unreachable"

Returned(text) == [ok |-> TRUE, text |-> text]
Raised(msg) == [ok |-> FALSE, text |-> msg]

Similarities == {10, 22, 50, 90}

Doc(sim) == [similarity |-> sim]

IsDescending(seq) ==
  \A i \in 1..(Len(seq) - 1) : seq[i].similarity >= seq[i + 1].similarity

CandidateLists ==
  { c \in UNION { [1..n -> {Doc(s) : s \in Similarities}] : n \in 0..MaxCandidates } :
      IsDescending(c) }

(***************************************************************************)
(* RetrieverService.retrieve (retriever.py).                               *)
(***************************************************************************)
\* seq[:n]
Prefix(seq, n) == SubSeq(seq, 1, IF n < Len(seq) THEN n ELSE Len(seq))

\* The index answers a search for n_results with the first n_results of its
\* ranking (vector_store.py, search).
vector_store_search(ranking, n_results) == Prefix(ranking, n_results)

\* retrieve returning every candidate above the threshold.
retrieve_Unlimited(ranking, top_k, self_top_k, self_threshold) ==
  LET k == IF top_k # 0 THEN top_k ELSE self_top_k
      results == vector_store_search(ranking, k * 2)
      AboveThreshold(result) == result.similarity >= self_threshold
  IN  SelectSeq(results, AboveThreshold)

retrieve(ranking, top_k, self_top_k, self_threshold) ==
  LET k == IF top_k # 0 THEN top_k ELSE self_top_k
      threshold == self_threshold
      results == vector_store_search(ranking, k * 2)
      AboveThreshold(result) == result.similarity >= threshold
      filtered_results == SelectSeq(results, AboveThreshold)
  IN  Prefix(filtered_results, k)

(***************************************************************************)
(* CoordinatorAgent.__call__ (coordinator.py).  llm is the outcome of the  *)
(* LLM call, used only when the domain gate lets the query through.        *)
(***************************************************************************)
CoordinatorQuery(st) ==
  IF Truthy(Get(st, "current_query", "")) THEN Get(st, "current_query", "")
  ELSE Get(st, "user_query", "")

CoordinatorCallsLLM(st) == ~is_out_of_domain(CoordinatorQuery(st))

coordinator_node(st, llm) ==
  IF is_out_of_domain(CoordinatorQuery(st))
  THEN [thought |-> "La pregunta está fuera del dominio de conocimiento del sistema",
        action |-> "answer",
        action_input |-> "out_of_domain",
        next_step |-> "answer",
        should_continue |-> FALSE]
       @@ increment_iteration(st)
       @@ add_trace_step(st, "coordinator", "Query fuera de dominio detectada",
                         "answer", "Redirigiendo a respuesta de fuera de dominio")
  ELSE IF ~llm.ok
  THEN [error |-> "Error en coordinador: " \o llm.text,
        next_step |-> "end",
        should_continue |-> FALSE]
       @@ add_trace_step(st, "coordinator", "Error fatal", "error", llm.text)
  ELSE
    LET parsed == parse_react_response(llm.text)
        action_input == parsed.action_input
        iteration == Get(st, "iteration", 1)
        has_docs == Len(Get(st, "retrieved_documents", <<>>)) > 0
        retry_count == Get(st, "retry_count", 0)
        forced == retry_count >= CoordinatorRetryLimit /\ ~has_docs
                    /\ parsed.action = "search"
        action == IF forced THEN "answer" ELSE parsed.action
        thought == IF forced
                   THEN parsed.thought
                          \o " [Nota: Respondiendo con conocimiento general después de "
                          \o ToString(retry_count) \o " búsquedas sin resultados]"
                   ELSE parsed.thought
    IN  IF iteration >= MaxIterations
        THEN [thought |-> "Máximo de iteraciones alcanzado",
              action |-> "answer",
              action_input |->
                "He alcanzado el límite de iteraciones. Con la información disponible, puedo decir que: "
                  \o action_input,
              next_step |-> "answer",
              should_continue |-> FALSE]
             @@ increment_iteration(st)
             @@ add_trace_step(st, "coordinator", "Límite de iteraciones",
                               "answer", "Forzando respuesta final")
        ELSE [thought |-> thought,
              action |-> action,
              action_input |-> action_input,
              next_step |-> IF action = "search" THEN "search" ELSE "answer",
              should_continue |-> (action # "answer")]
             @@ increment_iteration(st)
             @@ add_trace_step(st, "coordinator", thought, action,
                               "Decidido: " \o action)

(***************************************************************************)
(* SearchNode.__call__ (search_node.py).  index is the outcome of the      *)
(* vector index: its ranking for the query, or an exception.               *)
(***************************************************************************)
\* The search always looking for the user's original question.
SearchQuery_Original(st) == Get(st, "user_query", None)
SearchQuery(st) == Get(st, "action_input", Get(st, "user_query", None))

SearchCallsIndex(st) == Truthy(SearchQuery(st))

search_node(st, index) ==
  LET search_query == SearchQuery(st) IN
  IF ~Truthy(search_query)
  THEN [observation |-> "No search query provided",
        next_step |-> "answer"]
       @@ add_trace_step(st, "search", "Sin query de búsqueda", "skip",
                         "No query to search")
  ELSE IF ~index.ok
  THEN [error |-> "Error en search: " \o index.text,
        next_step |-> "answer"]
       @@ add_trace_step(st, "search", "Error al buscar documentos", "error",
                         index.text)
  ELSE
    LET documents == retrieve(index.ranking, TopK, TopK, RetrieverThreshold)
        observation == "Búsqueda completada: " \o ToString(Len(documents))
                         \o " documentos encontrados"
    IN  [retrieved_documents |-> documents,
         observation |-> observation,
         next_step |-> "grader"]
        @@ add_trace_step(st, "search",
                          "Ejecutando búsqueda para: " \o search_query,
                          "search", observation)

(***************************************************************************)
(* GraderAgent (grader.py): the numeric relevance rule and the node.       *)
(***************************************************************************)
\* grade_document excluding the threshold itself.
grade_document_Strict(similarity) == similarity > GraderThreshold
grade_document(similarity) == similarity >= GraderThreshold

IsRelevant(doc) == grade_document(doc.similarity)
IsIrrelevant(doc) == ~grade_document(doc.similarity)

\* The grading loop keeping, besides the relevant documents, the first one it sees.
RelevantDocs_KeepsFirst(documents) ==
  IF documents # <<>> /\ ~IsRelevant(documents[1])
  THEN <<documents[1]>> \o SelectSeq(documents, IsRelevant)
  ELSE SelectSeq(documents, IsRelevant)
RelevantDocs(documents) == SelectSeq(documents, IsRelevant)
IrrelevantDocs(documents) == SelectSeq(documents, IsIrrelevant)

grader_node(st) ==
  LET documents == Get(st, "retrieved_documents", <<>>) IN
  IF documents = <<>>
  THEN [observation |-> "No hay documentos para evaluar"]
       @@ add_trace_step(st, "grader", "Sin documentos para evaluar", "skip",
                         "No documents to grade")
  ELSE
    LET relevant_docs == RelevantDocs(documents)
        irrelevant_docs == IrrelevantDocs(documents)
        observation == "Evaluados " \o ToString(Len(documents)) \o " documentos: "
                         \o ToString(Len(relevant_docs)) \o " relevantes, "
                         \o ToString(Len(irrelevant_docs)) \o " irrelevantes"
        next_step == IF Len(relevant_docs) = 0 THEN "rewrite" ELSE "answer"
        thought == IF Len(relevant_docs) = 0
                   THEN "No hay documentos relevantes, necesito reescribir la consulta"
                   ELSE "Encontrados " \o ToString(Len(relevant_docs))
                          \o " documentos relevantes, proceder a responder"
    IN  [retrieved_documents |-> relevant_docs,
         observation |-> observation,
         next_step |-> next_step]
        @@ add_trace_step(st, "grader", thought, "grade", observation)

\* The grader's except branch needs a document without a numeric
\* similarity; search_node builds every document from a retrieval result
\* that has one, so the branch is not reachable and is not modelled.

(***************************************************************************)
(* RewriterAgent (rewriter.py).                                            *)
(***************************************************************************)
\* rewrite_query, on the text the LLM returned
CleanRewritten(text) ==
  Strip(StripChars(StripChars(StripChars(Strip(text), {"\""}), {"'"}), {"."}))

RewriterCallsLLM(st) == Get(st, "retry_count", 0) < RewriterRetryLimit

RewriterCeiling(st) ==
  LET original_query == Get(st, "user_query", "") IN
  [action |-> "answer",
   action_input |-> "No encontré documentos específicos, pero puedo responder sobre: "
                      \o original_query,
   next_step |-> "answer",
   observation |-> "Límite de reintentos alcanzado"]
  @@ add_trace_step(st, "rewriter", "Límite de reintentos alcanzado", "answer",
                    "Forzando respuesta final")

\* RewriterSuccess adding 3 to retry_count instead of 1.
RewriterSuccess_IncrementThrice(st, text) ==
  LET new_query == CleanRewritten(text) IN
  [action |-> "search",
   action_input |-> new_query,
   next_step |-> "search",
   observation |-> "Query reescrita: " \o new_query,
   retry_count |-> Get(st, "retry_count", 0) + 3]
  @@ add_trace_step(st, "rewriter", "Reescribiendo", "rewrite",
                    "Nueva query: " \o new_query)

RewriterSuccess(st, text) ==
  LET original_query == Get(st, "user_query", "")
      previous_action_input == Get(st, "action_input", original_query)
      current_retry == Get(st, "retry_count", 0)
      new_query == CleanRewritten(text)
      thought == "Query anterior no dio resultados relevantes. Reescribiendo: '"
                   \o previous_action_input \o "' → '" \o new_query \o "'"
  IN  [action |-> "search",
       action_input |-> new_query,
       next_step |-> "search",
       observation |-> "Query reescrita: " \o new_query]
      @@ increment_retry(st)
      @@ add_trace_step(st, "rewriter", thought, "rewrite",
                        "Nueva query: " \o new_query \o " | Retry: "
                          \o ToString(current_retry + 1))

\* RewriterFailure counting the failed attempt as a retry.
RewriterFailure_Increments(st, msg) ==
  [error |-> "Error en rewriter: " \o msg,
   action |-> "answer",
   next_step |-> "answer",
   retry_count |-> Get(st, "retry_count", 0) + 1]
  @@ add_trace_step(st, "rewriter", "Error al reescribir query", "error", msg)

RewriterFailure(st, msg) ==
  [error |-> "Error en rewriter: " \o msg,
   action |-> "answer",
   next_step |-> "answer"]
  @@ add_trace_step(st, "rewriter", "Error al reescribir query", "error", msg)

rewriter_node(st, llm) ==
  LET current_retry == Get(st, "retry_count", 0) IN
  IF current_retry >= RewriterRetryLimit THEN RewriterCeiling(st)
  ELSE IF llm.ok THEN RewriterSuccess(st, llm.text)
  ELSE RewriterFailure(st, llm.text)

(***************************************************************************)
(* AnswerNode.__call__ (answer_node.py).                                   *)
(***************************************************************************)
OUT_OF_DOMAIN_MESSAGE ==
  "Lo siento, no tengo información sobre ese tema en mi base de conocimiento. "
    \o "Mi dominio se limita a temas de Inteligencia Artificial, Machine Learning, "
    \o "Redes Neuronales y Agentes Inteligentes. ¿Puedo ayudarte con alguno de estos temas?"

APOLOGY_MESSAGE == "Lo siento, ocurrió un error al generar la respuesta."

\* The answer node invoking the LLM on every branch.
AnswerCallsLLM_Always(st) == TRUE

AnswerCallsLLM(st) ==
  /\ Get(st, "action", "answer") # "clarify"
  /\ Get(st, "action_input", "") # "out_of_domain"

\* AnswerDone recording every answer as one from general knowledge.
AnswerDone_AlwaysGeneral(st, final_answer, thought) ==
  [final_answer |-> final_answer,
   next_step |-> "end",
   should_continue |-> FALSE]
  @@ add_trace_step(st, "answer",
                    "Generando respuesta con conocimiento general (sin documentos)",
                    "answer",
                    "Respuesta final generada (" \o ToString(Len(final_answer))
                      \o " chars)")

\* AnswerDone resetting the error field.
AnswerDone_ClearsError(st, final_answer, thought) ==
  [final_answer |-> final_answer,
   error |-> None,
   next_step |-> "end",
   should_continue |-> FALSE]
  @@ add_trace_step(st, "answer", thought, "answer",
                    "Respuesta final generada (" \o ToString(Len(final_answer))
                      \o " chars)")

AnswerDone(st, final_answer, thought) ==
  [final_answer |-> final_answer,
   next_step |-> "end",
   should_continue |-> FALSE]
  @@ add_trace_step(st, "answer", thought, "answer",
                    "Respuesta final generada (" \o ToString(Len(final_answer))
                      \o " chars)")

\* AnswerFailure falling back to an action_input of exactly the floor's length.
AnswerFailure_FloorIncluded(st, msg) ==
  LET action_input == Get(st, "action_input", "")
      error_message == IF Truthy(action_input) /\ Len(action_input) >= FallbackMinLen
                       THEN action_input
                       ELSE APOLOGY_MESSAGE
  IN  [final_answer |-> error_message,
       error |-> "Error en answer: " \o msg,
       next_step |-> "end",
       should_continue |-> FALSE]
      @@ add_trace_step(st, "answer", "Error al generar respuesta", "error", msg)

AnswerFailure(st, msg) ==
  LET action_input == Get(st, "action_input", "")
      error_message == IF Truthy(action_input) /\ Len(action_input) > FallbackMinLen
                       THEN action_input
                       ELSE APOLOGY_MESSAGE
  IN  [final_answer |-> error_message,
       error |-> "Error en answer: " \o msg,
       next_step |-> "end",
       should_continue |-> FALSE]
      @@ add_trace_step(st, "answer", "Error al generar respuesta", "error", msg)

answer_node(st, llm) ==
  LET action == Get(st, "action", "answer")
      action_input == Get(st, "action_input", "")
      docs == Get(st, "retrieved_documents", <<>>)
  IN  IF action = "clarify"
      THEN IF action_input = None
           \* len(None) raises inside the try block
           THEN AnswerFailure(st, "object of type 'NoneType' has no len()")
           ELSE AnswerDone(st, action_input, "Solicitando aclaración al usuario")
      ELSE IF action_input = "out_of_domain"
      THEN AnswerDone(st, OUT_OF_DOMAIN_MESSAGE,
                      "Query fuera de dominio - respuesta directa sin documentos")
      ELSE IF ~llm.ok THEN AnswerFailure(st, llm.text)
      ELSE AnswerDone(st, Strip(llm.text),
                      IF Len(docs) > 0
                      THEN "Generando respuesta basada en " \o ToString(Len(docs))
                             \o " documentos recuperados"
                      ELSE "Generando respuesta con conocimiento general (sin documentos)")

(***************************************************************************)
(* Routing (graph.py).                                                     *)
(***************************************************************************)
\* route_after_coordinator sending every turn to search.
route_after_coordinator_AlwaysSearch(st) == "search"

route_after_coordinator(st) ==
  LET action == Get(st, "action", "answer") IN
  IF action = "search" THEN "search" ELSE "answer"

\* route_after_grader deciding on the coordinator's thought.
route_after_grader_ReadsThought(st) ==
  IF Get(st, "thought", None) = "otro pensamiento" THEN "answer" ELSE "rewrite"

\* route_after_grader following the next_step the grader wrote.
route_after_grader_FollowsNextStep(st) ==
  IF Get(st, "next_step", "answer") = "rewrite" THEN "rewrite" ELSE "answer"

route_after_grader(st) ==
  LET relevant_docs == Get(st, "retrieved_documents", <<>>)
      retry_count == Get(st, "retry_count", 0)
  IN  IF Len(relevant_docs) > 0 THEN "answer"
      ELSE IF retry_count >= RouteRetryLimit THEN "answer"
      ELSE "rewrite"

\* The edge maps given to add_conditional_edges, and the plain edges.
CoordinatorEdges(label) ==
  CASE label = "search" -> "search"
    [] label = "answer" -> "answer"
    [] label = "end" -> "END"

GraderEdges(label) ==
  CASE label = "answer" -> "answer"
    [] label = "rewrite" -> "rewriter"
    [] label = "end" -> "END"

\* The search node wired straight to answer.
SearchEdge_ToAnswer == "answer"

SearchEdge == "grader"
\* The rewriter wired to itself.
RewriterEdge_SelfLoop == "rewriter"

RewriterEdge == "search"
\* The answer node handing the turn back to the coordinator.
AnswerEdge_BackToCoordinator == "coordinator"

AnswerEdge == "END"

(***************************************************************************)
(* Inputs of a turn.                                                       *)
(***************************************************************************)
Queries == {"¿Qué es RAG?", "¿Cuál es el precio del bitcoin?"}

CoordinatorResponses ==
  {"Thought: Necesito buscar\nAction: search\nAction Input: que es rag",
   "Thought: Puedo responder\nAction: answer\nAction Input: Respuesta directa del coordinador",
   "Action: clarify\nAction Input: cual tema",
   "no se"}

RewriterResponses == {" \"rag definicion\". "}

AnswerResponses == {" Respuesta generada. \n", "  "}

NoCall == Raised("not called")

LLMOutcomes(texts) == {Returned(t) : t \in texts} \cup {Raised(LLMError)}

IndexOutcomes ==
  {[ok |-> TRUE, text |-> "", ranking |-> c] : c \in CandidateLists}
    \cup {[ok |-> FALSE, text |-> IndexError, ranking |-> <<>>]}

\* The keys of a node's update that stream_graph reads.
StreamKeys ==
  {"iteration", "thought", "action", "retrieved_documents", "rewritten_query",
   "final_answer"}

\* What graph.astream yields for one node execution: {node_name: update},
\* the update restricted to the keys stream_graph reads.
AstreamEvent(node_name, node_state) ==
  [node_name |-> node_name,
   node_state |-> [k \in DOMAIN node_state \cap StreamKeys |-> node_state[k]]]

(***************************************************************************)
(* stream_graph (graph.py): the server-sent events emitted for a turn.     *)
(* Timestamps and the elapsed time are left out, and so are the sources of *)
(* the documents, which the model's documents do not carry.  The inner     *)
(* except branch needs an update that json.dumps or the source formatting  *)
(* rejects; the nodes return none, so it is not modelled.                  *)
(***************************************************************************)
GraphRecursionMessage == "Recursion limit reached without hitting a stop condition"

\* The events emitted for one element of graph.astream; current_node is the
\* node of the element before it (None for the first).
NodeStreamEvents(event, current_node) ==
  LET node_name == event.node_name
      node_state == event.node_state
      iteration == Get(node_state, "iteration", 0)
      docs == Get(node_state, "retrieved_documents", <<>>)
  IN  (IF node_name # current_node
       THEN << [event_type |-> "node_start", node_name |-> node_name,
                iteration |-> iteration] >>
       ELSE << >>)
      \o (IF node_name = "coordinator" /\ "thought" \in DOMAIN node_state
          THEN << [event_type |-> "thought",
                   thought |-> Get(node_state, "thought", ""),
                   action |-> Get(node_state, "action", ""),
                   iteration |-> iteration] >>
          ELSE << >>)
      \o (IF node_name = "search" /\ "retrieved_documents" \in DOMAIN node_state
          THEN << [event_type |-> "documents_retrieved",
                   document_count |-> Len(docs),
                   iteration |-> iteration] >>
          ELSE << >>)
      \o (IF node_name = "grader" /\ "retrieved_documents" \in DOMAIN node_state
          THEN << [event_type |-> "grading_result",
                   relevant_count |-> Len(docs),
                   total_count |-> Len(docs),
                   decision |-> IF Len(docs) > 0 THEN "proceed" ELSE "rewrite",
                   iteration |-> iteration] >>
          ELSE << >>)
      \o (IF node_name = "rewriter" /\ "rewritten_query" \in DOMAIN node_state
          THEN << [event_type |-> "rewrite",
                   rewritten_query |-> Get(node_state, "rewritten_query", ""),
                   iteration |-> iteration] >>
          ELSE << >>)
      \o (IF node_name = "answer" /\ "final_answer" \in DOMAIN node_state
          THEN << [event_type |-> "final_answer",
                   answer |-> Get(node_state, "final_answer", ""),
                   sources |-> docs,
                   total_iterations |-> iteration] >>
          ELSE << >>)
      \o << [event_type |-> "node_end", node_name |-> node_name,
             iteration |-> iteration] >>

\* The closing done event emitted twice.
CompletedEvents_DoneTwice ==
  << [event_type |-> "done", success |-> TRUE],
     [event_type |-> "done", success |-> TRUE] >>

\* After the loop: the closing done event.
CompletedEvents == << [event_type |-> "done", success |-> TRUE] >>

\* The outer except branch: a fatal error event, then done without success.
FatalEvents(msg) ==
  << [event_type |-> "error", error_message |-> "Error fatal: " \o msg,
      node_name |-> None],
     [event_type |-> "done", success |-> FALSE] >>

\* One pass of the loop over graph.astream: the events emitted so far, those
\* of the element the node execution yields (current_node is the node of the
\* element before it) and, when the graph has reached END and the loop is
\* over, the closing event.
StreamStep(emitted_so_far, current_node, node_name, node_state, next) ==
  emitted_so_far
    \o NodeStreamEvents(AstreamEvent(node_name, node_state), current_node)
    \o (IF next = "END" THEN CompletedEvents ELSE << >>)

(***************************************************************************)
(* The turn: graph.invoke(create_initial_state(user_query)) of run_graph.  *)
(*   state      the merged GraphState                                      *)
(*   pc         the node the graph runs next, END, or "raised" once        *)
(*              graph.invoke has raised                                    *)
(*   executed   the nodes executed so far, in order                        *)
(*   retrievals the documents each search execution obtained, in order     *)
(*   llm_calls  the number of LLM invocations so far                       *)
(*   emitted    the server-sent events stream_graph has emitted so far,    *)
(*              when the turn is run through stream_graph                  *)
(***************************************************************************)
VARIABLES state, pc, executed, retrievals, llm_calls, emitted,
          fn_input, fn_output,
          conversations, requests, active, responses

\* One turn of the graph.
graphVars == <<state, pc, executed, retrievals, llm_calls, emitted>>
\* One direct call of a component, outside the graph.
callVars == <<fn_input, fn_output>>
\* The chat router: its conversation store, the requests it has received,
\* the request its handler is processing, and what it has answered.
chatVars == <<conversations, requests, active, responses>>

vars == <<graphVars, callVars, chatVars>>

NoDirectCall == fn_input = None /\ fn_output = None

\* The handler is processing no request.
Idle == 0

\* conversations: Dict[str, Dict] = {}
EmptyStore == [conv_id \in {} |-> [messages |-> <<>>]]

NoChat ==
  /\ conversations = EmptyStore
  /\ requests = <<>>
  /\ active = Idle
  /\ responses = <<>>

Nodes == {"coordinator", "search", "grader", "rewriter", "answer"}

Init ==
  /\ \E user_query \in Queries : state = InitialTurnState(user_query)
  /\ pc = "coordinator"
  /\ executed = <<>>
  /\ retrievals = <<>>
  /\ llm_calls = 0
  /\ emitted = <<>>
  /\ NoDirectCall
  /\ NoChat

\* stream_graph's current_node: the node of the last element it consumed.
current_node == IF executed = <<>> THEN None ELSE executed[Len(executed)]

CanStep(node) == pc = node /\ Len(executed) < RecursionLimit

CoordinatorStep(texts) ==
  /\ CanStep("coordinator")
  /\ \E llm \in IF CoordinatorCallsLLM(state)
                THEN LLMOutcomes(texts) ELSE {NoCall} :
       \E upd \in {coordinator_node(state, llm)} :
         /\ state' = MergeUpdate(state, upd)
         /\ pc' = CoordinatorEdges(route_after_coordinator(state'))
         /\ emitted' = StreamStep(emitted, current_node, "coordinator", upd, pc')
  /\ executed' = Append(executed, "coordinator")
  /\ llm_calls' = llm_calls + IF CoordinatorCallsLLM(state) THEN 1 ELSE 0
  /\ UNCHANGED <<retrievals, callVars, chatVars>>

SearchStep(outcomes) ==
  /\ CanStep("search")
  /\ pc' = SearchEdge
  /\ \E index \in IF SearchCallsIndex(state)
                  THEN outcomes
                  ELSE {[ok |-> FALSE, text |-> "not called", ranking |-> <<>>]} :
       \E upd \in {search_node(state, index)} :
         /\ state' = MergeUpdate(state, upd)
         /\ emitted' = StreamStep(emitted, current_node, "search", upd, pc')
         /\ retrievals' = Append(retrievals, Get(upd, "retrieved_documents", <<>>))
  /\ executed' = Append(executed, "search")
  /\ UNCHANGED <<llm_calls, callVars, chatVars>>

Grader ==
  /\ CanStep("grader")
  /\ \E upd \in {grader_node(state)} :
       /\ state' = MergeUpdate(state, upd)
       /\ pc' = GraderEdges(route_after_grader(state'))
       /\ emitted' = StreamStep(emitted, current_node, "grader", upd, pc')
  /\ executed' = Append(executed, "grader")
  /\ UNCHANGED <<retrievals, llm_calls, callVars, chatVars>>

RewriterStep(texts) ==
  /\ CanStep("rewriter")
  /\ pc' = RewriterEdge
  /\ \E llm \in IF RewriterCallsLLM(state)
                THEN LLMOutcomes(texts) ELSE {NoCall} :
       \E upd \in {rewriter_node(state, llm)} :
         /\ state' = MergeUpdate(state, upd)
         /\ emitted' = StreamStep(emitted, current_node, "rewriter", upd, pc')
  /\ executed' = Append(executed, "rewriter")
  /\ llm_calls' = llm_calls + IF RewriterCallsLLM(state) THEN 1 ELSE 0
  /\ UNCHANGED <<retrievals, callVars, chatVars>>

AnswerStep(texts) ==
  /\ CanStep("answer")
  /\ pc' = AnswerEdge
  /\ \E llm \in IF AnswerCallsLLM(state)
                THEN LLMOutcomes(texts) ELSE {NoCall} :
       \E upd \in {answer_node(state, llm)} :
         /\ state' = MergeUpdate(state, upd)
         /\ emitted' = StreamStep(emitted, current_node, "answer", upd, pc')
  /\ executed' = Append(executed, "answer")
  /\ llm_calls' = llm_calls + IF AnswerCallsLLM(state) THEN 1 ELSE 0
  /\ UNCHANGED <<retrievals, callVars, chatVars>>

\* graph.invoke gives up once the recursion limit is reached before END.
GraphRecursionError ==
  /\ pc \in Nodes
  /\ Len(executed) >= RecursionLimit
  /\ pc' = "raised"
  /\ emitted' = emitted \o FatalEvents(GraphRecursionMessage)
  /\ UNCHANGED <<state, executed, retrievals, llm_calls, callVars, chatVars>>

Coordinator == CoordinatorStep(CoordinatorResponses)

Search == SearchStep(IndexOutcomes)

Rewriter == RewriterStep(RewriterResponses)

Answer == AnswerStep(AnswerResponses)

Next ==
  \/ Coordinator
  \/ Search
  \/ Grader
  \/ Rewriter
  \/ Answer
  \/ GraphRecursionError

Spec == Init /\ [][Next]_vars

\* graph.invoke runs each node to completion and then the next one.
FairSpec == Spec /\ WF_vars(Next)

(***************************************************************************)
(* Helpers of the properties.                                              *)
(***************************************************************************)
Last(seq) == seq[Len(seq)]

Count(seq, x) == Cardinality({i \in 1..Len(seq) : seq[i] = x})

\* The step being taken executes this node.
Executes(node) == pc = node /\ executed' = Append(executed, node)

\* The trace entry the step being taken appends.
NewTraceEntry == state'.trace[Len(state'.trace)]

RewriterFailedAt(i) ==
  state.trace[i].agent = "rewriter" /\ state.trace[i].action = "error"

(***************************************************************************)
(* C1.  Termination: whatever the coordinator decides, the retrievals      *)
(* return and the LLM and retrieval calls do (return or raise), a turn     *)
(* started at the coordinator eventually reaches END.                      *)
(***************************************************************************)
C1_TurnReachesEnd == <>(pc = "END")

(***************************************************************************)
(* C2.  A rewriter whose LLM call raises sets error and action=answer and  *)
(* the turn goes to the answer node: neither search nor the rewriter       *)
(* executes after a rewriter failure.                                      *)
(***************************************************************************)
C2_NoLoopOnRewriteFailure ==
  \A i \in 1..Len(state.trace) :
    RewriterFailedAt(i) =>
      /\ state.error # None
      /\ i = Len(state.trace) => (state.action = "answer" /\ pc = "answer")
      /\ \A j \in (i + 1)..Len(executed) : executed[j] \notin {"search", "rewriter"}

(***************************************************************************)
(* C3.  Once a node has set error, the turn goes straight to answer/END:   *)
(* no search, grader or rewriter is about to execute while error is set.   *)
(***************************************************************************)
C3_ErrorShortCircuits == state.error # None => pc \in {"answer", "END"}

(***************************************************************************)
(* C4.  In every reachable state of a turn 0 <= retry_count <= 2.          *)
(***************************************************************************)
C4_RetryBounded == 0 <= state.retry_count /\ state.retry_count <= 2

\* The rewriter has rewritten twice and the turn has ended at the ceiling.
C4_Witness ==
  pc = "END" /\ state.retry_count = 2 /\ Count(executed, "rewriter") = 2

(***************************************************************************)
(* C5.  retry_count never decreases; every rewriter execution entered      *)
(* with retry_count < 2 increases it by exactly 1; no other node changes   *)
(* it.                                                                     *)
(***************************************************************************)
C5_RetryMonotonicity ==
  [][ /\ state'.retry_count >= state.retry_count
      /\ (Executes("rewriter") /\ state.retry_count < 2)
           => state'.retry_count = state.retry_count + 1
      /\ ~Executes("rewriter") => state'.retry_count = state.retry_count ]_vars

\* C5, amended.  retry_count never decreases; a rewriter execution entered
\* with retry_count < 2 increases it by exactly 1 when its LLM call returns
\* and leaves it unchanged when the call raises; a rewriter execution at the
\* ceiling and every other node leave it unchanged.
C5_RetryMonotonicityAmended ==
  [][ /\ state'.retry_count >= state.retry_count
      /\ (Executes("rewriter") /\ state.retry_count < 2
            /\ NewTraceEntry.action = "rewrite")
           => state'.retry_count = state.retry_count + 1
      /\ (Executes("rewriter") /\ state.retry_count < 2
            /\ NewTraceEntry.action = "error")
           => state'.retry_count = state.retry_count
      /\ (Executes("rewriter") /\ state.retry_count < 2)
           => NewTraceEntry.action \in {"rewrite", "error"}
      /\ (Executes("rewriter") /\ state.retry_count >= 2)
           => state'.retry_count = state.retry_count
      /\ ~Executes("rewriter") => state'.retry_count = state.retry_count ]_vars

\* A rewriter execution has failed and another has rewritten.
C5_Witness ==
  /\ state.retry_count = 1
  /\ \E i \in 1..Len(state.trace) : RewriterFailedAt(i)
  /\ \E i \in 1..Len(state.trace) :
       state.trace[i].agent = "rewriter" /\ state.trace[i].action = "rewrite"

(***************************************************************************)
(* C6.  If the coordinator chooses search and every search yields zero     *)
(* relevant documents, the turn runs coordinator, search, grader,          *)
(* rewriter, search, grader, rewriter, search, grader, answer and ends     *)
(* with retry_count = 2.                                                   *)
(***************************************************************************)
EveryRetrievalIrrelevant ==
  \A i \in 1..Len(retrievals) : RelevantDocs(retrievals[i]) = <<>>

\* No LLM or retrieval call of the turn has raised.
NoCallRaised == \A i \in 1..Len(state.trace) : state.trace[i].action # "error"

C6_TwoRewriteCycles ==
  (/\ pc = "END"
   /\ executed[1] = "coordinator"
   /\ executed[2] = "search"
   /\ NoCallRaised
   /\ EveryRetrievalIrrelevant)
    => /\ executed = <<"coordinator", "search", "grader", "rewriter", "search",
                       "grader", "rewriter", "search", "grader", "answer">>
       /\ state.retry_count = 2

(***************************************************************************)
(* C7.  Every turn that reaches END has a non-empty final_answer.          *)
(***************************************************************************)
C7_FinalAnswerNonEmpty == pc = "END" => Truthy(state.final_answer)

C9_GraderReplacesDocuments ==
  (executed # <<>> /\ Last(executed) = "grader")
    => state.retrieved_documents = RelevantDocs(Last(retrievals))

(***************************************************************************)
(* C10.  After the grader the next node is answer if at least one document *)
(* was graded relevant, else answer if retry_count >= 2, else rewriter.    *)
(***************************************************************************)
C10_RouteAfterGrader ==
  [][ Executes("grader") =>
        pc' = IF RelevantDocs(state.retrieved_documents) # <<>> THEN "answer"
              ELSE IF state.retry_count >= 2 THEN "answer"
              ELSE "rewriter" ]_vars

(***************************************************************************)
(* C11.  A query that matches an out-of-domain keyword and no in-domain    *)
(* keyword is answered without any LLM call: the coordinator               *)
(* short-circuits, the turn ends with the fixed out-of-domain message, the *)
(* trace is one coordinator entry followed by one answer entry, and        *)
(* iteration is 1.                                                         *)
(***************************************************************************)
MatchesKeyword(query, keywords) ==
  \E i \in 1..Len(keywords) : Contains(Lower(query), keywords[i])

OutOfDomainQueries ==
  {q \in Queries : /\ MatchesKeyword(q, OUT_OF_DOMAIN_KEYWORDS)
                   /\ ~MatchesKeyword(q, DOMAIN_KEYWORDS)}

TraceAgents == [i \in 1..Len(state.trace) |-> state.trace[i].agent]

C11_OutOfDomainShortCircuit ==
  state.user_query \in OutOfDomainQueries =>
    /\ llm_calls = 0
    /\ pc \in {"coordinator", "answer", "END"}
    /\ pc = "END" =>
         /\ state.final_answer = OUT_OF_DOMAIN_MESSAGE
         /\ TraceAgents = <<"coordinator", "answer">>
         /\ executed = <<"coordinator", "answer">>
         /\ state.iteration = 1

\* An out-of-domain turn has ended.
C11_Witness ==
  /\ state.user_query \in OutOfDomainQueries
  /\ pc = "END"
  /\ state.action_input = "out_of_domain"

(***************************************************************************)
(* C12.  Every execution of the coordinator, whatever its outcome (gate    *)
(* short-circuit, LLM decision, ceiling override or failed LLM call),      *)
(* raises iteration by exactly 1, and no other node changes iteration.     *)
(***************************************************************************)
C12_IterationIncrement ==
  [][ /\ Executes("coordinator") => state'.iteration = state.iteration + 1
      /\ ~Executes("coordinator") => state'.iteration = state.iteration ]_vars

(***************************************************************************)
(* C13.  In every reachable state of a turn iteration <= 5.                *)
(***************************************************************************)
C13_IterationBounded == 0 <= state.iteration /\ state.iteration <= 5

\* The coordinator has decided and the turn has ended.
C13_Witness ==
  /\ pc = "END"
  /\ Count(executed, "coordinator") = 1
  /\ state.iteration = 1
  /\ Count(executed, "rewriter") = 2

(***************************************************************************)
(* C14.  The coordinator executes exactly once per turn, as the first      *)
(* node: no node leads back to it, and the only cycle of the turn is       *)
(* rewriter -> search -> grader -> rewriter.                               *)
(***************************************************************************)
\* The edge the turn took last; every earlier edge was the last edge of an
\* earlier state.
LastEdge == <<executed[Len(executed) - 1], executed[Len(executed)]>>

C14_CoordinatorOnce ==
  /\ pc = "coordinator" <=> executed = <<>>
  /\ executed # <<>> => executed[1] = "coordinator"
  /\ \A i \in 2..Len(executed) : executed[i] # "coordinator"
  /\ Len(executed) >= 2 =>
       LastEdge \in {<<"coordinator", "search">>, <<"coordinator", "answer">>,
                     <<"search", "grader">>, <<"grader", "answer">>,
                     <<"grader", "rewriter">>, <<"rewriter", "search">>}
  \* coordinator and answer are not repeated: only rewriter, search and
  \* grader can be
  /\ \A i \in 1..(Len(executed) - 1) : executed[i] # "answer"

\* A turn went through the rewriter -> search -> grader cycle and ended.
C14_Witness ==
  /\ pc = "END"
  /\ Count(executed, "search") = 3
  /\ Count(executed, "grader") = 3

(***************************************************************************)
(* C15.  When the coordinator's LLM call raises, the coordinator sets      *)
(* error and the turn goes to the terminal step without retry: the         *)
(* coordinator is not executed again, no search, grader or rewriter        *)
(* executes, and the turn ends at END after the answer node.               *)
(***************************************************************************)
CoordinatorFailed ==
  /\ state.trace # <<>>
  /\ state.trace[1].agent = "coordinator"
  /\ state.trace[1].action = "error"

C15_CoordinatorFailureTerminal ==
  CoordinatorFailed =>
    /\ state.error # None
    /\ \/ executed = <<"coordinator">> /\ pc = "answer"
       \/ executed = <<"coordinator", "answer">> /\ pc = "END"

\* A turn whose coordinator failed has ended after the answer node.
C15_Witness ==
  /\ CoordinatorFailed
  /\ pc = "END"
  /\ executed = <<"coordinator", "answer">>

(***************************************************************************)
(* C16.  The successor of each node follows the transition table: after    *)
(* the coordinator the next node is search if and only if action is        *)
(* "search" and answer otherwise; after search it is always grader, also   *)
(* when search skipped or failed; after answer it is always END.           *)
(***************************************************************************)
C16_TransitionTable ==
  [][ /\ Executes("coordinator") =>
           pc' = IF state'.action = "search" THEN "search" ELSE "answer"
      /\ Executes("search") => pc' = "grader"
      /\ Executes("answer") => pc' = "END" ]_vars

\* A search that failed was followed by the grader, and the turn ended.
C16_Witness ==
  /\ pc = "END"
  /\ Len(executed) >= 3
  /\ executed[2] = "search"
  /\ executed[3] = "grader"
  /\ state.trace[2].action = "error"

(***************************************************************************)
(* C17.  The trace is append-only and gains exactly one entry per node     *)
(* execution, on every branch of every node (success, skip and error): at  *)
(* any point the agent names of the trace are the nodes executed so far,   *)
(* in order.                                                               *)
(***************************************************************************)
C17_TraceFollowsExecution ==
  /\ [](TraceAgents = executed)
  /\ [][ /\ SubSeq(state'.trace, 1, Len(state.trace)) = state.trace
         /\ \A node \in Nodes :
              Executes(node) =>
                /\ Len(state'.trace) = Len(state.trace) + 1
                /\ NewTraceEntry.agent = node ]_vars

\* A turn with a skipped step and a failed step has ended.
C17_Witness ==
  /\ pc = "END"
  /\ \E i \in 1..Len(state.trace) : state.trace[i].action = "skip"
  /\ \E i \in 1..Len(state.trace) : state.trace[i].action = "error"
  /\ Len(state.trace) = Len(executed)

(***************************************************************************)
(* C18.  The thought field never affects control flow: two turns whose     *)
(* states differ only in thought execute the same nodes and end with the   *)
(* same action, retry_count, iteration and retrieved_documents.  Stated    *)
(* on one step, from which the statement on whole turns follows by         *)
(* induction: in every reachable state, giving thought any other value     *)
(* changes neither the update the next node returns, for any outcome of    *)
(* its collaborator, nor whether it calls the collaborator, nor what the   *)
(* routing functions return.                                               *)
(***************************************************************************)
OtherThoughts == {"otro pensamiento"}

WithThought(st, thought) == [st EXCEPT !.thought = thought]

ThoughtIgnored ==
  \A thought \in OtherThoughts :
    LET other == WithThought(state, thought) IN
    /\ route_after_coordinator(other) = route_after_coordinator(state)
    /\ route_after_grader(other) = route_after_grader(state)
    /\ pc = "coordinator" =>
         /\ CoordinatorCallsLLM(other) = CoordinatorCallsLLM(state)
         /\ \A llm \in LLMOutcomes(CoordinatorResponses) \cup {NoCall} :
              coordinator_node(other, llm) = coordinator_node(state, llm)
    /\ pc = "search" =>
         /\ SearchCallsIndex(other) = SearchCallsIndex(state)
         /\ \A index \in IndexOutcomes :
              search_node(other, index) = search_node(state, index)
    /\ pc = "grader" => grader_node(other) = grader_node(state)
    /\ pc = "rewriter" =>
         /\ RewriterCallsLLM(other) = RewriterCallsLLM(state)
         /\ \A llm \in LLMOutcomes(RewriterResponses) \cup {NoCall} :
              rewriter_node(other, llm) = rewriter_node(state, llm)
    /\ pc = "answer" =>
         /\ AnswerCallsLLM(other) = AnswerCallsLLM(state)
         /\ \A llm \in LLMOutcomes(AnswerResponses) \cup {NoCall} :
              answer_node(other, llm) = answer_node(state, llm)

C18_ThoughtIgnored == []ThoughtIgnored

\* A turn whose coordinator recorded the LLM's thought went through search,
\* grader and rewriter and ended.
C18_Witness ==
  /\ pc = "END"
  /\ state.thought = "Necesito buscar"
  /\ Count(executed, "rewriter") >= 1
  /\ Last(executed) = "answer"

(***************************************************************************)
(* C19.  stream_graph emits exactly one done event on every run and it is  *)
(* the last event; its success flag is true when the node stream           *)
(* completed and false when a fatal exception escaped, and then an error   *)
(* event immediately precedes it.  While the turn is running no done       *)
(* event has been emitted.                                                 *)
(***************************************************************************)
DoneEvents(events) ==
  {i \in 1..Len(events) : events[i].event_type = "done"}

ExactlyOneDoneLast ==
  LET events == emitted IN
  /\ pc \in Nodes => DoneEvents(events) = {}
  /\ pc \in {"END", "raised"} =>
       /\ DoneEvents(events) = {Len(events)}
       /\ events[Len(events)].success = (pc = "END")
  /\ pc = "raised" => events[Len(events) - 1].event_type = "error"
  /\ pc = "END" =>
       \A i \in 1..Len(events) : events[i].event_type # "error"

C19_ExactlyOneDoneLast == []ExactlyOneDoneLast

\* A streamed turn that ended because graph.astream raised.
C19_Witness ==
  /\ pc = "raised"
  /\ Len(executed) = RecursionLimit
  /\ Len(emitted) > 2 * RecursionLimit

(***************************************************************************)
(* C20.  The node names stream_graph reports in its node_start events and  *)
(* in its node_end events are the nodes run_graph executes, in order, and  *)
(* every node execution is reported by one node_start followed later by    *)
(* one node_end.                                                           *)
(***************************************************************************)
IsNodeBoundary(event) == event.event_type \in {"node_start", "node_end"}

NodeBoundaries == SelectSeq(emitted, IsNodeBoundary)

StreamMatchesExecution ==
  LET boundaries == NodeBoundaries IN
  /\ Len(boundaries) = 2 * Len(executed)
  /\ \A i \in 1..Len(executed) :
       /\ boundaries[2 * i - 1].event_type = "node_start"
       /\ boundaries[2 * i - 1].node_name = executed[i]
       /\ boundaries[2 * i].event_type = "node_end"
       /\ boundaries[2 * i].node_name = executed[i]

C20_StreamMatchesExecution == []StreamMatchesExecution

\* A streamed turn with two rewrite cycles has ended.
C20_Witness ==
  /\ pc = "END"
  /\ Len(executed) = 10
  /\ Len(NodeBoundaries) = 20

(***************************************************************************)
(* C21.  Every event stream_graph emits, of every type, carries an         *)
(* iteration field, and the iteration it carries is the turn's iteration   *)
(* counter at the time the event is emitted.  (Every event of the code     *)
(* carries a timestamp; timestamps are not part of the model's events.)    *)
(***************************************************************************)
NewEvents == SubSeq(emitted', Len(emitted) + 1, Len(emitted'))

C21_EventsCarryIteration ==
  [][ \A i \in 1..Len(NewEvents) :
        /\ "iteration" \in DOMAIN NewEvents[i]
        /\ NewEvents[i].iteration = state'.iteration ]_vars

(***************************************************************************)
(* C22.  Each node returns a partial update and leaves the other fields    *)
(* unchanged: search, grader and answer never change retry_count or        *)
(* iteration; the rewriter never changes retrieved_documents or            *)
(* iteration; the coordinator never changes retrieved_documents or         *)
(* retry_count; and a node that fails changes only error, trace and its    *)
(* routing hints (action, next_step, should_continue).                     *)
(***************************************************************************)
ChangedFields == {k \in DOMAIN state : state'[k] # state[k]}

FrameOfEachNode ==
  /\ (Executes("search") \/ Executes("grader") \/ Executes("answer"))
       => ChangedFields \cap {"retry_count", "iteration"} = {}
  /\ Executes("rewriter")
       => ChangedFields \cap {"retrieved_documents", "iteration"} = {}
  /\ Executes("coordinator")
       => ChangedFields \cap {"retrieved_documents", "retry_count"} = {}

NodeFails == (\E node \in Nodes : Executes(node)) /\ NewTraceEntry.action = "error"

FailureHints == {"error", "trace", "action", "next_step", "should_continue"}

C22_PartialUpdates ==
  [][ /\ FrameOfEachNode
      /\ NodeFails => ChangedFields \subseteq FailureHints ]_vars

\* C22, amended.  As above, except that a failing answer node also sets
\* final_answer, to its fallback message.
C22_PartialUpdatesAmended ==
  [][ /\ FrameOfEachNode
      /\ (NodeFails /\ ~Executes("answer")) => ChangedFields \subseteq FailureHints
      /\ (NodeFails /\ Executes("answer"))
           => /\ ChangedFields \subseteq FailureHints \cup {"final_answer"}
              /\ "final_answer" \in ChangedFields ]_vars

\* A turn in which the rewriter failed and then the answer node failed.
C22_Witness ==
  /\ pc = "END"
  /\ Last(state.trace).agent = "answer"
  /\ Last(state.trace).action = "error"
  /\ \E i \in 1..Len(state.trace) : RewriterFailedAt(i)

(***************************************************************************)
(* Direct calls of single components, outside the graph: the domain gate,  *)
(* the grader's partition and the rewriter.  fn_input is the call and      *)
(* fn_output the sequence of results obtained so far.                      *)
(***************************************************************************)
NoTurn ==
  /\ state = <<>>
  /\ pc = "idle"
  /\ executed = <<>>
  /\ retrievals = <<>>
  /\ llm_calls = 0
  /\ emitted = <<>>

\* Words a query is made of, with what each one contains: an in-domain
\* keyword, an out-of-domain keyword, both ("Lluvia" holds "lluvia" and "ia")
\* or neither.
GateWords ==
  { [text |-> "RAG",           in_domain |-> TRUE,  out_domain |-> FALSE],
    [text |-> "Deep Learning", in_domain |-> TRUE,  out_domain |-> FALSE],
    [text |-> "Lluvia",        in_domain |-> TRUE,  out_domain |-> TRUE],
    [text |-> "Bitcoin",       in_domain |-> FALSE, out_domain |-> TRUE],
    [text |-> "DÓLAR",         in_domain |-> FALSE, out_domain |-> TRUE],
    [text |-> "hola",          in_domain |-> FALSE, out_domain |-> FALSE] }

RECURSIVE JoinWords(_)
JoinWords(words) ==
  IF words = <<>> THEN ""
  ELSE IF Len(words) = 1 THEN words[1].text
  ELSE words[1].text \o " " \o JoinWords(Tail(words))

GateCalls ==
  { [fn |-> "is_out_of_domain", words |-> w, query |-> JoinWords(w)] :
      w \in UNION { [1..n -> GateWords] : n \in 0..MaxWords } }

\* Similarities around the grader's threshold, and two document texts.
GraderDocuments ==
  { [similarity |-> s, document |-> d] : s \in {0, 24, 25, 26}, d \in {"a", "b"} }

GraderCalls ==
  { [fn |-> "grader", documents |-> docs] :
      docs \in UNION { [1..n -> GraderDocuments] : n \in 0..MaxCandidates } }

RewriterCalls ==
  { [fn |-> "rewriter",
     state |-> [retry_count |-> r, action_input |-> "rag"]
                 @@ InitialTurnState("¿Qué es RAG?")] : r \in 0..3 }

\* The coordinator on a state of a later iteration, below, at and above the
\* ceiling.
CoordinatorCalls ==
  { [fn |-> "coordinator",
     state |-> [iteration |-> i] @@ InitialTurnState(user_query)] :
      i \in {4, 5, 6}, user_query \in Queries }

\* The answer node on the states a coordinator, a grader or a rewriter can
\* hand it, and on a request for clarification.
AnswerCalls ==
  { [fn |-> "answer",
     state |-> [action |-> action, action_input |-> action_input,
                retrieved_documents |-> docs]
                 @@ InitialTurnState("¿Qué es RAG?")] :
      action \in {"clarify", "answer", "search"},
      action_input \in {"out_of_domain", "cual tema", "Respuesta directa del coordinador"},
      docs \in {<<>>, <<Doc(90)>>, <<Doc(90), Doc(50)>>} }

\* retrieve with a small top_k, so that the index holds more candidates than
\* are asked for and more than are returned.
RetrieveCalls ==
  { [fn |-> "retrieve", ranking |-> ranking, top_k |-> top_k, threshold |-> threshold] :
      ranking \in CandidateLists, top_k \in {1, 2}, threshold \in {20, 50} }

ComponentInit ==
  /\ fn_input \in GateCalls \cup GraderCalls \cup RewriterCalls \cup CoordinatorCalls
                    \cup AnswerCalls \cup RetrieveCalls
  /\ fn_output = <<>>
  /\ NoTurn
  /\ NoChat

CallIsOutOfDomain ==
  /\ fn_input.fn = "is_out_of_domain"
  /\ fn_output = <<>>
  /\ fn_output' = <<is_out_of_domain(fn_input.query)>>
  /\ UNCHANGED <<fn_input, graphVars, chatVars>>

\* The loop of GraderAgent.__call__ over one list of documents.
Partition(documents) ==
  [documents |-> documents,
   relevant_docs |-> RelevantDocs(documents),
   irrelevant_docs |-> IrrelevantDocs(documents)]

CallGrader ==
  /\ fn_input.fn = "grader"
  /\ fn_output = <<>>
  /\ fn_output' = <<Partition(fn_input.documents)>>
  /\ UNCHANGED <<fn_input, graphVars, chatVars>>

\* Grading again the documents the previous grading kept.
CallGraderAgain ==
  /\ fn_input.fn = "grader"
  /\ Len(fn_output) = 1
  /\ fn_output' = Append(fn_output, Partition(fn_output[1].relevant_docs))
  /\ UNCHANGED <<fn_input, graphVars, chatVars>>

\* The rewriter followed by the edge that build_graph hangs on it.
CallRewriter ==
  /\ fn_input.fn = "rewriter"
  /\ fn_output = <<>>
  /\ \E llm \in IF RewriterCallsLLM(fn_input.state)
                THEN LLMOutcomes(RewriterResponses) ELSE {NoCall} :
       fn_output' = <<[update |-> rewriter_node(fn_input.state, llm),
                       llm_called |-> RewriterCallsLLM(fn_input.state),
                       next_node |-> RewriterEdge]>>
  /\ UNCHANGED <<fn_input, graphVars, chatVars>>

CallCoordinator ==
  /\ fn_input.fn = "coordinator"
  /\ fn_output = <<>>
  /\ \E llm \in IF CoordinatorCallsLLM(fn_input.state)
                THEN LLMOutcomes(CoordinatorResponses) ELSE {NoCall} :
       fn_output' = <<[update |-> coordinator_node(fn_input.state, llm),
                       llm |-> llm]>>
  /\ UNCHANGED <<fn_input, graphVars, chatVars>>

CallAnswer ==
  /\ fn_input.fn = "answer"
  /\ fn_output = <<>>
  /\ \E llm \in IF AnswerCallsLLM(fn_input.state)
                THEN LLMOutcomes(AnswerResponses) ELSE {NoCall} :
       fn_output' = <<[update |-> answer_node(fn_input.state, llm),
                       llm_calls |-> IF AnswerCallsLLM(fn_input.state) THEN 1 ELSE 0,
                       llm |-> llm]>>
  /\ UNCHANGED <<fn_input, graphVars, chatVars>>

CallRetrieve ==
  /\ fn_input.fn = "retrieve"
  /\ fn_output = <<>>
  /\ fn_output' = <<retrieve(fn_input.ranking, fn_input.top_k, TopK, fn_input.threshold)>>
  /\ UNCHANGED <<fn_input, graphVars, chatVars>>

ComponentNext ==
  \/ CallIsOutOfDomain
  \/ CallGrader
  \/ CallGraderAgain
  \/ CallRewriter
  \/ CallCoordinator
  \/ CallAnswer
  \/ CallRetrieve

ComponentSpec == ComponentInit /\ [][ComponentNext]_vars

(***************************************************************************)
(* C23.  is_out_of_domain returns false for every query that contains an   *)
(* in-domain keyword as a case-insensitive substring, whatever             *)
(* out-of-domain keywords it also contains; it returns true exactly when   *)
(* the query contains no in-domain keyword and at least one out-of-domain  *)
(* keyword.                                                                *)
(***************************************************************************)
HasInDomainWord == \E i \in 1..Len(fn_input.words) : fn_input.words[i].in_domain
HasOutDomainWord == \E i \in 1..Len(fn_input.words) : fn_input.words[i].out_domain

GateAnswered == fn_input.fn = "is_out_of_domain" /\ fn_output # <<>>

C23_DomainGate ==
  GateAnswered =>
    /\ HasInDomainWord => fn_output[1] = FALSE
    /\ fn_output[1] = TRUE <=> (~HasInDomainWord /\ HasOutDomainWord)

\* A query with both kinds of keyword was judged in-domain.
C23_Witness ==
  /\ GateAnswered
  /\ \E i, j \in 1..Len(fn_input.words) :
       /\ fn_input.words[i].in_domain /\ ~fn_input.words[i].out_domain
       /\ fn_input.words[j].out_domain /\ ~fn_input.words[j].in_domain
  /\ fn_output[1] = FALSE

(***************************************************************************)
(* C24.  For every list of documents given to the grader, the relevant and *)
(* the irrelevant lists are disjoint and together contain every input      *)
(* document exactly once; a document is relevant if and only if its        *)
(* similarity is at least 0.25, the boundary included.                     *)
(***************************************************************************)
GraderAnswered == fn_input.fn = "grader" /\ fn_output # <<>>

Occurrences(seq, x) == Cardinality({i \in 1..Len(seq) : seq[i] = x})

Members(seq) == {seq[i] : i \in 1..Len(seq)}

C24_GraderPartition ==
  GraderAnswered =>
    LET graded == fn_output[1] IN
    /\ Members(graded.relevant_docs) \cap Members(graded.irrelevant_docs) = {}
    /\ \A doc \in GraderDocuments :
         Occurrences(graded.relevant_docs, doc) + Occurrences(graded.irrelevant_docs, doc)
           = Occurrences(fn_input.documents, doc)
    /\ \A doc \in Members(fn_input.documents) :
         doc \in Members(graded.relevant_docs) <=> doc.similarity >= 25

\* A document exactly at the threshold was kept and one just below it dropped.
C24_Witness ==
  /\ GraderAnswered
  /\ \E doc \in Members(fn_output[1].relevant_docs) : doc.similarity = 25
  /\ \E doc \in Members(fn_output[1].irrelevant_docs) : doc.similarity = 24

(***************************************************************************)
(* C25.  Grading is idempotent: grading again the relevant documents of a  *)
(* previous grading yields the same relevant list and an empty irrelevant  *)
(* list, whatever the text of the documents.                               *)
(***************************************************************************)
GradedTwice == fn_input.fn = "grader" /\ Len(fn_output) = 2

C25_GradingIdempotent ==
  GradedTwice =>
    /\ fn_output[2].relevant_docs = fn_output[1].relevant_docs
    /\ fn_output[2].irrelevant_docs = <<>>

\* The first grading dropped something and kept documents of both texts.
C25_Witness ==
  /\ GradedTwice
  /\ fn_output[1].irrelevant_docs # <<>>
  /\ \E d1, d2 \in Members(fn_output[2].relevant_docs) : d1.document # d2.document

(***************************************************************************)
(* C29.  When the rewriter is invoked with retry_count >= 2 it does not    *)
(* call the LLM, does not increment retry_count, sets action = answer with *)
(* a degraded-mode action_input embedding the original query, and the next *)
(* node executed is answer, not search.                                    *)
(***************************************************************************)
RewriterAtCeiling ==
  /\ fn_input.fn = "rewriter"
  /\ fn_input.state.retry_count >= 2
  /\ fn_output # <<>>

SearchedFor == "Ejecutando búsqueda para: "

\* The step is a search that called retrieval with this query.
SearchPasses(query) ==
  /\ Executes("search")
  /\ NewTraceEntry.action = "search"
  /\ NewTraceEntry.thought = SearchedFor \o query

Retrieves == Executes("search") /\ NewTraceEntry.action = "search"

\* The trace entry of a successful rewrite to this query.
RewroteTo(entry, query) ==
  /\ entry.agent = "rewriter"
  /\ entry.action = "rewrite"
  /\ \E retry \in 1..RewriterRetryLimit :
       entry.observation = "Nueva query: " \o query \o " | Retry: " \o ToString(retry)

ConversationIds == {"conv-1"}

ChatRequests == [message : Queries, conversation_id : ConversationIds \cup {None}]

\* str(uuid.uuid4()): an identifier no other request has.
uuid4(request) == "uuid-" \o ToString(request)

ChatCoordinatorResponses ==
  {text \in CoordinatorResponses : Contains(text, "Action: search")}

ChatIndexOutcomes ==
  {[ok |-> TRUE, text |-> "", ranking |-> <<Doc(sim)>>] : sim \in {10, 90}}

ChatAnswerResponses == {" Respuesta generada. \n"}

\* The rewriter's LLM is down: every call of it raises.
ChatRewriterResponses == {}

ChatInit ==
  /\ requests \in [1..MaxRequests -> ChatRequests]
  /\ conversations = EmptyStore
  /\ active = Idle
  /\ responses = <<>>
  /\ NoTurn
  /\ NoDirectCall

Answered(request) == \E i \in 1..Len(responses) : responses[i].request = request

\* chat, up to run_graph's create_initial_state and graph.invoke.
ChatReceive ==
  /\ active = Idle
  /\ \E request \in 1..Len(requests) :
       /\ ~Answered(request)
       /\ active' = request
       /\ state' = InitialTurnState(requests[request].message)
  /\ pc' = "coordinator"
  /\ executed' = <<>>
  /\ retrievals' = <<>>
  /\ llm_calls' = 0
  /\ emitted' = <<>>
  /\ UNCHANGED <<conversations, requests, responses, callVars>>

ChatCoordinator == CoordinatorStep(ChatCoordinatorResponses)

ChatSearch == SearchStep(ChatIndexOutcomes)

ChatRewriter == RewriterStep(ChatRewriterResponses)

ChatAnswer == AnswerStep(ChatAnswerResponses)

\* The handler returns or raises: its local final_state is gone.
TurnDiscarded ==
  /\ state' = <<>>
  /\ pc' = "idle"
  /\ executed' = <<>>
  /\ retrievals' = <<>>
  /\ llm_calls' = 0
  /\ emitted' = <<>>

conv_id == IF requests[active].conversation_id # None
           THEN requests[active].conversation_id
           ELSE uuid4(active)

\* The store after extend() putting the assistant's message first.
ExtendMessages_AssistantFirst(store, id, message, final_answer) ==
  LET messages == IF id \in DOMAIN store THEN store[id].messages ELSE <<>> IN
  (id :> [messages |-> messages \o << [role |-> "assistant", content |-> final_answer],
                                      [role |-> "user", content |-> message] >>])
    @@ store

\* The store after extend() overwriting the messages it held.
ExtendMessages_Overwrites(store, id, message, final_answer) ==
  (id :> [messages |-> << [role |-> "user", content |-> message],
                          [role |-> "assistant", content |-> final_answer] >>])
    @@ store

ExtendMessages(store, id, message, final_answer) ==
  LET messages == IF id \in DOMAIN store THEN store[id].messages ELSE <<>> IN
  (id :> [messages |-> messages \o << [role |-> "user", content |-> message],
                                      [role |-> "assistant", content |-> final_answer] >>])
    @@ store

\* The except branch keeping the user's message in the store.
StoreAfterFailure_KeepsQuestion(store, id, message) ==
  (id :> [messages |-> (IF id \in DOMAIN store THEN store[id].messages ELSE <<>>)
                         \o << [role |-> "user", content |-> message] >>])
    @@ store

\* The except branch of chat does not touch conversations.
StoreAfterFailure(store, id, message) == store

\* run_graph returned: save the pair and answer.
ChatReturn ==
  /\ active # Idle
  /\ pc = "END"
  /\ \E final_answer \in {Get(state, "final_answer", "")} :
       /\ conversations' =
            ExtendMessages(conversations, conv_id, requests[active].message, final_answer)
       /\ responses' = Append(responses,
            [request |-> active, status |-> 200, conversation_id |-> conv_id,
             answer |-> final_answer, detail |-> None])
  /\ active' = Idle
  /\ TurnDiscarded
  /\ UNCHANGED <<requests, callVars>>

\* run_graph raised: HTTPException 500 with the error as detail.
ChatRaise ==
  /\ active # Idle
  /\ pc = "raised"
  /\ conversations' = StoreAfterFailure(conversations, conv_id, requests[active].message)
  /\ responses' = Append(responses,
       [request |-> active, status |-> 500, conversation_id |-> conv_id,
        answer |-> None, detail |-> "Error procesando mensaje: " \o GraphRecursionMessage])
  /\ active' = Idle
  /\ TurnDiscarded
  /\ UNCHANGED <<requests, callVars>>

\* delete_history of a conversation the store holds (404 otherwise).
DeleteHistory ==
  /\ active = Idle
  /\ \E id \in DOMAIN conversations :
       /\ conversations' = [c \in DOMAIN conversations \ {id} |-> conversations[c]]
       /\ responses' = Append(responses,
            [request |-> Idle, status |-> 204, conversation_id |-> id,
             answer |-> None, detail |-> None])
  /\ UNCHANGED <<requests, active, graphVars, callVars>>

ChatNext ==
  \/ ChatReceive
  \/ ChatCoordinator
  \/ ChatSearch
  \/ Grader
  \/ ChatRewriter
  \/ ChatAnswer
  \/ GraphRecursionError
  \/ ChatReturn
  \/ ChatRaise
  \/ DeleteHistory

ChatSpec == ChatInit /\ [][ChatNext]_vars

(***************************************************************************)
(* C26.  After N successful chat requests with the same conversation_id    *)
(* the history of that conversation holds exactly 2N messages, alternating *)
(* user then assistant in request order, each assistant message being the  *)
(* final_answer of its turn; messages are only appended, never reordered   *)
(* or removed, until delete_history.                                       *)
(***************************************************************************)
UserMessage(content) == [role |-> "user", content |-> content]
AssistantMessage(content) == [role |-> "assistant", content |-> content]

\* The history the first n responses leave for a conversation: one pair per
\* successful request, in the order they were answered, since its last delete.
RECURSIVE HistoryAfter(_, _)
HistoryAfter(id, n) ==
  IF n = 0 THEN <<>>
  ELSE IF responses[n].conversation_id # id THEN HistoryAfter(id, n - 1)
  ELSE IF responses[n].status = 204 THEN <<>>
  ELSE IF responses[n].status = 200
  THEN HistoryAfter(id, n - 1)
         \o << UserMessage(requests[responses[n].request].message),
               AssistantMessage(responses[n].answer) >>
  ELSE HistoryAfter(id, n - 1)

StoredMessages(store, id) == IF id \in DOMAIN store THEN store[id].messages ELSE <<>>

AllConversationIds == ConversationIds \cup {uuid4(request) : request \in 1..MaxRequests}

HistoryIsPairs ==
  \A id \in AllConversationIds :
    StoredMessages(conversations, id) = HistoryAfter(id, Len(responses))

IsPrefixOf(s, t) == Len(s) <= Len(t) /\ SubSeq(t, 1, Len(s)) = s

AnswersWith(final_answer) ==
  /\ Len(responses') = Len(responses) + 1
  /\ Last(responses').status = 200
  /\ Last(responses').answer = final_answer

C26_HistoryAppendOnly ==
  /\ []HistoryIsPairs
  /\ [][ /\ \A id \in DOMAIN conversations :
              \/ IsPrefixOf(conversations[id].messages, StoredMessages(conversations', id))
              \/ (Last(responses').status = 204 /\ Last(responses').conversation_id = id)
         /\ (active # Idle /\ pc = "END") => AnswersWith(state.final_answer) ]_vars

\* Two successful requests of one conversation: four messages.
C26_Witness ==
  /\ "conv-1" \in DOMAIN conversations
  /\ Len(conversations["conv-1"].messages) = 4
  /\ \A i \in 1..Len(responses) : responses[i].status = 200

(***************************************************************************)
(* C27.  For any interleaving of concurrent chat requests, with the same   *)
(* or different conversation_id, each turn's state (iteration,             *)
(* retry_count, trace, retrieved_documents, final_answer) is unaffected by *)
(* the other turns, and the store ends with every request's user/assistant *)
(* pair, each pair adjacent and in order, none lost.  Pairs of a           *)
(* conversation deleted after them are gone with it.                       *)
(***************************************************************************)
AllAnswered == active = Idle /\ \A request \in 1..Len(requests) : Answered(request)

\* The response is a success that no later delete_history removed.
Kept(i) ==
  /\ responses[i].status = 200
  /\ \A j \in (i + 1)..Len(responses) :
       ~(responses[j].status = 204 /\ responses[j].conversation_id = responses[i].conversation_id)

KeptBefore(i) ==
  {j \in 1..i : Kept(j) /\ responses[j].conversation_id = responses[i].conversation_id}

KeptOf(id) == {j \in 1..Len(responses) : Kept(j) /\ responses[j].conversation_id = id}

EveryPairStored ==
  AllAnswered =>
    /\ \A i \in 1..Len(responses) :
         Kept(i) =>
           LET messages == StoredMessages(conversations, responses[i].conversation_id)
               at == 2 * Cardinality(KeptBefore(i)) - 1
           IN  /\ at + 1 <= Len(messages)
               /\ messages[at] = UserMessage(requests[responses[i].request].message)
               /\ messages[at + 1] = AssistantMessage(responses[i].answer)
    /\ \A id \in DOMAIN conversations :
         Len(conversations[id].messages) = 2 * Cardinality(KeptOf(id))

\* The state of the turn in progress holds what its own nodes produced.
TurnIsItsOwn ==
  active # Idle =>
    /\ state.user_query = requests[active].message
    /\ Len(state.trace) = Len(executed)
    /\ \A i \in 1..Len(state.trace) : state.trace[i].agent = executed[i]
    /\ state.iteration <= Occurrences(executed, "coordinator")
    /\ state.retry_count <= Occurrences(executed, "rewriter")
    /\ \A i \in 1..Len(state.retrieved_documents) :
         \E j \in 1..Len(retrievals) :
           state.retrieved_documents[i] \in Members(retrievals[j])
    /\ (state.final_answer # None) => Occurrences(executed, "answer") > 0

C28_FailureLeavesStore ==
  [][ (active # Idle /\ pc = "raised") =>
        /\ conversations' = conversations
        /\ Len(responses') = Len(responses) + 1
        /\ Last(responses').request = active
        /\ Last(responses').status = 500
        /\ StartsWith(Last(responses').detail, "Error procesando mensaje: ") ]_vars

\* A request failed after another one had been stored.
C28_Witness ==
  /\ Len(responses) = 2
  /\ responses[1].status = 200
  /\ responses[2].status = 500
  /\ Cardinality(DOMAIN conversations) = 1

(***************************************************************************)
(* C31.  For every node execution the stream contains that node's payload  *)
(* event between its node_start and node_end: thought for the coordinator, *)
(* documents_retrieved for search, grading_result for the grader, rewrite  *)
(* carrying the rewritten query for every rewriter execution that produced *)
(* a new query, and final_answer carrying the answer and its sources for   *)
(* answer.  A node that failed or skipped its work owes no payload here.   *)
(***************************************************************************)
\* The events of this step hold, strictly between the first and the last, one
\* of this type.
PayloadAt(event_type) ==
  {i \in 2..(Len(NewEvents) - 1) : NewEvents[i].event_type = event_type}

FramedByNode(node) ==
  /\ Len(NewEvents) >= 2
  /\ NewEvents[1].event_type = "node_start" /\ NewEvents[1].node_name = node

C31_PayloadEvents ==
  [][ /\ (Executes("coordinator") /\ NewTraceEntry.action # "error")
           => FramedByNode("coordinator") /\ PayloadAt("thought") # {}
      /\ (Executes("search") /\ NewTraceEntry.action = "search")
           => FramedByNode("search") /\ PayloadAt("documents_retrieved") # {}
      /\ (Executes("grader") /\ NewTraceEntry.action # "skip")
           => FramedByNode("grader") /\ PayloadAt("grading_result") # {}
      /\ (Executes("rewriter") /\ NewTraceEntry.action = "rewrite")
           => /\ FramedByNode("rewriter")
              /\ \E i \in PayloadAt("rewrite") :
                   NewEvents[i].rewritten_query = state'.action_input
      /\ Executes("answer")
           => /\ FramedByNode("answer")
              /\ \E i \in PayloadAt("final_answer") :
                   /\ NewEvents[i].answer = state'.final_answer
                   /\ NewEvents[i].sources = state'.retrieved_documents ]_vars

(***************************************************************************)
(* C32.  When the coordinator is invoked with iteration >= 5 (the value    *)
(* before the increment) and is not gated, it returns action = answer      *)
(* whatever the LLM decided, with action_input equal to the ceiling notice *)
(* concatenated with the parsed action_input, and iteration incremented by *)
(* 1.                                                                      *)
(***************************************************************************)
CeilingNotice ==
  "He alcanzado el límite de iteraciones. Con la información disponible, puedo decir que: "

CoordinatorDecided ==
  /\ fn_input.fn = "coordinator"
  /\ fn_output # <<>>
  /\ fn_output[1].llm.ok

C32_IterationCeiling ==
  (CoordinatorDecided /\ fn_input.state.iteration >= 5) =>
    /\ fn_output[1].update.action = "answer"
    /\ fn_output[1].update.action_input
         = CeilingNotice \o parse_react_response(fn_output[1].llm.text).action_input
    /\ fn_output[1].update.iteration = fn_input.state.iteration + 1

\* At the ceiling the LLM asked for a search and the coordinator answered.
C32_Witness ==
  /\ CoordinatorDecided
  /\ fn_input.state.iteration = 5
  /\ parse_react_response(fn_output[1].llm.text).action = "search"
  /\ fn_output[1].update.action = "answer"
  /\ fn_output[1].update.iteration = 6

(***************************************************************************)
(* C33.  When the answer node raises it still returns a terminal update:   *)
(* final_answer is the current action_input if that is longer than 10      *)
(* characters and the generic apology string otherwise, and error is set;  *)
(* the next node is END.                                                   *)
(***************************************************************************)
AnswerRaises == Executes("answer") /\ NewTraceEntry.action = "error"

C33_AnswerFallback ==
  [][ AnswerRaises =>
        /\ state'.final_answer =
             IF state.action_input # None /\ Len(state.action_input) > 10
             THEN state.action_input
             ELSE "Lo siento, ocurrió un error al generar la respuesta."
        /\ state'.error # None /\ state'.error # ""
        /\ pc' = "END" ]_vars

\* The answer node failed on an action_input of exactly 10 characters, and
\* apologised.
C33_Witness ==
  /\ pc = "END"
  /\ Last(state.trace).agent = "answer"
  /\ Last(state.trace).action = "error"
  /\ state.action_input # None
  /\ Len(state.action_input) = 10
  /\ state.final_answer = APOLOGY_MESSAGE

(***************************************************************************)
(* C34.  When action is clarify or action_input is the out-of-domain       *)
(* sentinel, the answer node makes no LLM call and final_answer is the     *)
(* canned text verbatim (the action_input for clarify, the fixed           *)
(* out-of-domain message for the sentinel); in every other case it makes   *)
(* exactly one LLM call.                                                   *)
(***************************************************************************)
AnswerCalled == fn_input.fn = "answer" /\ fn_output # <<>>

C34_CannedAnswers ==
  AnswerCalled =>
    IF fn_input.state.action = "clarify"
    THEN /\ fn_output[1].llm_calls = 0
         /\ fn_output[1].update.final_answer = fn_input.state.action_input
    ELSE IF fn_input.state.action_input = "out_of_domain"
    THEN /\ fn_output[1].llm_calls = 0
         /\ StartsWith(fn_output[1].update.final_answer,
                       "Lo siento, no tengo información sobre ese tema en mi base de conocimiento. ")
         /\ Contains(fn_output[1].update.final_answer, "Mi dominio se limita a temas de")
    ELSE fn_output[1].llm_calls = 1

\* A request for clarification went out verbatim, without an LLM call.
C34_Witness ==
  /\ AnswerCalled
  /\ fn_input.state.action = "clarify"
  /\ fn_output[1].update.final_answer = "cual tema"
  /\ fn_output[1].llm_calls = 0

(***************************************************************************)
(* C35.  An LLM routing response whose action is missing or not one of     *)
(* search/answer is coerced to action = search instead of failing the      *)
(* turn, and when the parsed action_input is empty the raw response is     *)
(* used as the action_input, so a coerced search never carries an empty    *)
(* query while the response is non-empty.                                  *)
(***************************************************************************)
\* The response names neither of the two valid actions.
NamesNoValidAction(text) ==
  ~Contains(text, "Action: search") /\ ~Contains(text, "Action: answer")

CoercedDecision ==
  /\ CoordinatorDecided
  /\ fn_input.state.iteration < 5
  /\ NamesNoValidAction(fn_output[1].llm.text)

C35_CoercedSearch ==
  CoercedDecision =>
    /\ fn_output[1].update.action = "search"
    /\ "error" \notin DOMAIN fn_output[1].update
    /\ ~Contains(fn_output[1].llm.text, "Action Input:")
         => fn_output[1].update.action_input = fn_output[1].llm.text
    /\ fn_output[1].update.action_input # ""

(***************************************************************************)
(* C36.  RetrieverService.retrieve requests top_k * 2 candidates, keeps    *)
(* those with similarity >= threshold and returns the first top_k of them  *)
(* in the candidates' order: the result has at most top_k documents, each  *)
(* with similarity >= threshold, and is a prefix of the filtered candidate *)
(* list.                                                                   *)
(***************************************************************************)
Retrieved == fn_input.fn = "retrieve" /\ fn_output # <<>>

\* The first 2 * top_k documents of the index's ranking.
Candidates ==
  SubSeq(fn_input.ranking, 1,
         IF Len(fn_input.ranking) < 2 * fn_input.top_k
         THEN Len(fn_input.ranking) ELSE 2 * fn_input.top_k)

PassesThreshold(doc) == doc.similarity >= fn_input.threshold

C36_RetrieveTopK ==
  Retrieved =>
    /\ Len(fn_output[1]) <= fn_input.top_k
    /\ \A i \in 1..Len(fn_output[1]) : fn_output[1][i].similarity >= fn_input.threshold
    /\ IsPrefixOf(fn_output[1], SelectSeq(Candidates, PassesThreshold))
    /\ Len(fn_output[1]) < fn_input.top_k
         => fn_output[1] = SelectSeq(Candidates, PassesThreshold)

\* Three candidates in the index, two asked for, both above the threshold,
\* one returned.
C36_Witness ==
  /\ Retrieved
  /\ fn_input.top_k = 1
  /\ Len(fn_input.ranking) = 3
  /\ Len(SelectSeq(Candidates, PassesThreshold)) = 2
  /\ Len(fn_output[1]) = 1

(***************************************************************************)
(* C37.  Whenever the answer is produced by the LLM, the answer node's     *)
(* trace entry records whether it was grounded: its thought states a       *)
(* document-based answer if and only if retrieved_documents is non-empty   *)
(* at that point, and a general-knowledge answer otherwise.                *)
(***************************************************************************)
AnsweredByLLM ==
  /\ Executes("answer")
  /\ NewTraceEntry.action = "answer"
  /\ llm_calls' = llm_calls + 1

C37_GroundingRecorded ==
  [][ AnsweredByLLM =>
        /\ NewTraceEntry.agent = "answer"
        /\ IF state.retrieved_documents # <<>>
           THEN NewTraceEntry.thought =
                  "Generando respuesta basada en "
                    \o ToString(Len(state.retrieved_documents))
                    \o " documentos recuperados"
           ELSE NewTraceEntry.thought =
                  "Generando respuesta con conocimiento general (sin documentos)" ]_vars

\* An answer the LLM wrote from retrieved documents.
C37_Witness ==
  /\ pc = "END"
  /\ state.retrieved_documents # <<>>
  /\ Last(state.trace).agent = "answer"
  /\ StartsWith(Last(state.trace).thought, "Generando respuesta basada en ")

(***************************************************************************)
(* C38.  Once any node sets error to a non-empty value, error stays        *)
(* non-empty in every later state of the turn, the final state included:   *)
(* no later node's update clears it, also when the answer node then        *)
(* succeeds.                                                               *)
(***************************************************************************)
ErrorSet(st) == st.error # None /\ st.error # ""

C38_ErrorSticks == [][ ErrorSet(state) => ErrorSet(state') ]_vars

\* A search failed and the answer node then succeeded: the error is still there.
C38_Witness ==
  /\ pc = "END"
  /\ ErrorSet(state)
  /\ StartsWith(state.error, "Error en search")
  /\ Last(state.trace).agent = "answer"
  /\ Last(state.trace).action = "answer"

(***************************************************************************)
(* C39.  Routing depends only on action (after the coordinator) and on     *)
(* retrieved_documents and retry_count (after the grader): two states that *)
(* differ only in next_step, should_continue or observation have the same  *)
(* successor node, so the next_step a node writes (for example answer      *)
(* written by a skipped or failed search, or rewrite written by the        *)
(* grader) never overrides the graph's edges.                              *)
(***************************************************************************)
OtherHints ==
  { [next_step |-> "end", should_continue |-> FALSE, observation |-> "otra"],
    [next_step |-> "rewrite", should_continue |-> TRUE, observation |-> None] }

WithHints(st, hints) ==
  [st EXCEPT !.next_step = hints.next_step,
             !.should_continue = hints.should_continue,
             !.observation = hints.observation]

HintsIgnored ==
  \A hints \in OtherHints :
    /\ route_after_coordinator(WithHints(state, hints)) = route_after_coordinator(state)
    /\ route_after_grader(WithHints(state, hints)) = route_after_grader(state)

SuccessorFromRoutingFields ==
  /\ Executes("coordinator")
       => pc' = IF state'.action = "search" THEN "search" ELSE "answer"
  /\ Executes("search") => pc' = "grader"
  /\ Executes("grader")
       => pc' = IF state'.retrieved_documents # <<>> \/ state'.retry_count >= 2
                THEN "answer" ELSE "rewriter"
  /\ Executes("rewriter") => pc' = "search"
  /\ Executes("answer") => pc' = "END"

GradingResultAgrees(grading_event) ==
  /\ grading_event.decision = "proceed" <=> pc' = "answer"
  /\ grading_event.decision = "rewrite" <=> pc' = "rewriter"
  /\ grading_event.relevant_count = Len(RelevantDocs(state.retrieved_documents))
  /\ grading_event.total_count = Len(state.retrieved_documents)

C40_GradingResultAgrees ==
  [][ Executes("grader")
        => \A i \in PayloadAt("grading_result") : GradingResultAgrees(NewEvents[i]) ]_vars
====
